---- MODULE Spec2Model ----
(***************************************************************************)
(* Model of the emote-set copier: the diff engine                          *)
(* (process_emotes_to_copy, src/main.py), the sync executor (copy_emotes,   *)
(* src/main.py) and the error classification of the remote set client      *)
(* (add_emote / remove_emote, src/app/seventv.py).                         *)
(*                                                                         *)
(* The specifications share the variables:                                 *)
(*   SpecDiff     applies process_emotes_to_copy to bounded snapshots;     *)
(*   Spec         runs copy_emotes on every plan process_emotes_to_copy    *)
(*                can return for those snapshots, against a remote that    *)
(*                may answer each mutation in any way;                     *)
(*   SpecClassify applies add_emote and remove_emote to bounded replies;   *)
(*   SpecSession  runs main from the first prompt to the end of the        *)
(*                process, interrupts included.                            *)
(*                                                                         *)
(* The snapshots are those of sets as the remote keeps them: no two        *)
(* entries of a set share an emote id or an alias (WellFormed), and        *)
(* totalCount is the number of listed items.  copy_emotes receives the     *)
(* plan and the target snapshot only, so Spec leaves from_items, force and *)
(* only_fitting at fixed values.  The remote calls of an item are not      *)
(* counted: attempt_log holds the calls of the current attempt and         *)
(* attempts the attempts that failed before it.                            *)
(***************************************************************************)
EXTENDS Integers, Sequences, FiniteSets, TLC

(***************************************************************************)
(* Bounds of the model.                                                    *)
(***************************************************************************)
MaxId == 2
MaxAlias == 2
MaxOrigin == 2
MaxTarget == 2
MaxCapacity == 1

VARIABLES
    from_items,        \* from_emote_set.emotes.items (<<>> once out of scope)
    target_emote_set,  \* [capacity, items, total_count] of the target snapshot
    force,             \* the answer to "replace conflicting emotes?"
    only_fitting,      \* the answer to "Only add emotes that fit?"
    emotes_to_copy,    \* the plan returned by process_emotes_to_copy
    pc,                \* position of the control flow
    session,           \* session state
    sys_exit,          \* <<>> while running, <<status>> once the process ended
    idx,               \* index of the current plan item (for emote in ...)
    skip_removal,      \* local of copy_emotes
    attempts,          \* local of copy_emotes
    progress,          \* completed count of the progress task
    item_state,        \* per plan item: "Queued", "Added" or "Skipped"
    attempt_log,       \* the remote calls of the current attempt, in order
    delays,            \* the backoff delays slept for the current item
    response,          \* the remote's reply to the last fetch ("none" before)
    origin_set_id,     \* from_emote_set.id ("none" before the fetch)
    target_set_id,     \* target_emote_set.id ("none" before the fetch)
    target_owner       \* target_emote_set.owner (NoOwner when not in scope)

vars == <<from_items, target_emote_set, force, only_fitting, emotes_to_copy,
          pc, session, sys_exit, idx, skip_removal, attempts, progress,
          item_state, attempt_log, delays,
          response, origin_set_id, target_set_id, target_owner>>

(***************************************************************************)
(* Data model (src/app/models.py), restricted to the fields the code reads.*)
(***************************************************************************)
Ids == 1..MaxId
Aliases == 1..MaxAlias

\* An entry of the origin set: emote.id, emote.alias, emote.data.flags.private
EmoteSetEmote == [id : Ids, alias : Aliases, private : BOOLEAN]

\* An entry of the target set: only id and alias are ever read
TargetEmote == [id : Ids, alias : Aliases]

SeqsOf(S, lo, hi) == UNION {[1..n -> S] : n \in lo..hi}

\* The remote keeps the emote ids and the aliases of a set distinct, so the
\* snapshots it returns have no two entries with the same id or alias
WellFormed(items) ==
    \A i, j \in 1..Len(items) :
        i # j => items[i].id # items[j].id /\ items[i].alias # items[j].alias

\* get_origin_emote_set rejects a set without emotes
OriginItems == {its \in SeqsOf(EmoteSetEmote, 1, MaxOrigin) : WellFormed(its)}

\* The target snapshot; totalCount is the number of items the remote lists
EmoteSet ==
    {[capacity |-> c, items |-> its, total_count |-> Len(its)] :
        c \in 0..MaxCapacity,
        its \in {t \in SeqsOf(TargetEmote, 0, MaxTarget) : WellFormed(t)}}

\* The ids of the sets the remote holds.  A set id is only compared with
\* another one (main.py:104) and passed on, so the set fetched as origin is
\* taken to be the first of the two
OriginSetId == "set_a"
TargetSetId == "set_b"
SetIds == {OriginSetId, TargetSetId}

\* user_id_from_token(token), and the users a set can name
seventv_user_id == "me"
Users == {"me", "other"}

\* Owner (models.py:25-32): the owner's id and the ids of the editors
Owner == [id : Users, editors : {<<>>, <<"other">>, <<"other", "me">>}]

\* no set is in scope
NoOwner == [id |-> "none", editors |-> <<>>]

Min(a, b) == IF a < b THEN a ELSE b
Max(a, b) == IF a > b THEN a ELSE b

RECURSIVE Sum(_)
Sum(s) == IF s = <<>> THEN 0 ELSE Head(s) + Sum(Tail(s))

(***************************************************************************)
(* process_emotes_to_copy (src/main.py:121-184)                            *)
(***************************************************************************)
\* Python's list[:n]: a negative n counts from the end of the list
PySliceTo(s, n) ==
    IF n >= 0 THEN SubSeq(s, 1, Min(n, Len(s)))
              ELSE SubSeq(s, 1, Max(0, Len(s) + n))

\* variant: the private emotes are not filtered out
non_private_emotes_unfiltered(items) == items

\* main.py:136
non_private_emotes(items) == SelectSeq(items, LAMBDA e : ~e.private)

ExactlySame(e, titems) ==
    \E i \in 1..Len(titems) : titems[i].id = e.id /\ titems[i].alias = e.alias

AliasUsed(alias, titems) == \E i \in 1..Len(titems) : titems[i].alias = alias

\* variant: the exact duplicates are not filtered out
new_emotes_unfiltered(items, titems) == non_private_emotes(items)

\* main.py:145-149
new_emotes(items, titems) ==
    SelectSeq(non_private_emotes(items), LAMBDA e : ~ExactlySame(e, titems))

non_conflicting_emotes(items, titems) ==
    SelectSeq(non_private_emotes(items), LAMBDA e : ~AliasUsed(e.alias, titems))

\* variant: conflicting emotes are kept without regard to the answer
after_conflicts_answer_ignored(items, titems, f) ==
    LET conflicting == Len(new_emotes(items, titems))
                       - Len(non_conflicting_emotes(items, titems))
    IN  IF conflicting > 0 THEN new_emotes(items, titems)
                           ELSE non_conflicting_emotes(items, titems)

\* the list after the conflict question
after_conflicts(items, titems, f) ==
    LET conflicting == Len(new_emotes(items, titems))
                       - Len(non_conflicting_emotes(items, titems))
    IN  IF conflicting > 0 /\ f THEN new_emotes(items, titems)
                                ELSE non_conflicting_emotes(items, titems)

space_available(target) == target.capacity - target.total_count

\* the list after the capacity question
fit_to_capacity(list, space, fit) ==
    IF space < Len(list) /\ fit THEN PySliceTo(list, space) ELSE list

process_emotes_to_copy(items, target, f, fit) ==
    fit_to_capacity(after_conflicts(items, target.items, f),
                    space_available(target), fit)

(***************************************************************************)
(* SpecDiff: the diff engine applied to bounded snapshots.                 *)
(***************************************************************************)
InitDiff ==
    /\ from_items \in OriginItems
    /\ target_emote_set \in EmoteSet
    /\ force \in BOOLEAN
    /\ only_fitting \in BOOLEAN
    /\ emotes_to_copy = <<>>
    /\ pc = "process"
    /\ session = "Planning"
    /\ sys_exit = <<>>
    /\ idx = 0
    /\ skip_removal = FALSE
    /\ attempts = 0
    /\ progress = 0
    /\ item_state = <<>>
    /\ attempt_log = <<>>
    /\ delays = <<>>
    /\ response = "none"
    /\ origin_set_id = "none"
    /\ target_set_id = "none"
    /\ target_owner = NoOwner

\* main.py:263 emotes_to_copy = process_emotes_to_copy(...); an empty list
\* ends the process with sys.exit(0) (main.py:180-182)
ProcessEmotes ==
    /\ pc = "process"
    /\ LET plan == process_emotes_to_copy(from_items, target_emote_set,
                                          force, only_fitting)
       IN  /\ emotes_to_copy' = plan
           /\ IF Len(plan) = 0
              THEN /\ pc' = "exit"
                   /\ session' = "NothingToCopy"
                   /\ sys_exit' = <<0>>
              ELSE /\ pc' = "confirm"
                   /\ session' = "Confirming"
                   /\ sys_exit' = sys_exit
    /\ UNCHANGED <<from_items, target_emote_set, force, only_fitting, idx,
                   skip_removal, attempts, progress, item_state, attempt_log,
                   delays,
                   response,
                   origin_set_id, target_set_id, target_owner>>

NextDiff == ProcessEmotes

SpecDiff == InitDiff /\ [][NextDiff]_vars

(***************************************************************************)
(* Remote set client (src/app/seventv.py): what add_emote and remove_emote *)
(* make of the remote's reply.                                             *)
(***************************************************************************)
\* The shapes of extensions in errors[0]: absent, without "code", without
\* "message", or carrying one of the codes
Extensions == {"absent", "no_code", "no_message", "LACKING_PRIVILEGES",
               "BAD_REQUEST", "LOAD_ERROR", "INTERNAL_SERVER_ERROR"}

\* status: "fault" (no HTTP response: connection failure or timeout),
\* "http_error" (non-2xx), "ok" (2xx); errors: the body has an "errors" key;
\* not_found: errors[0].message contains "emote not found"
Replies ==
    {[status |-> s, errors |-> FALSE, not_found |-> FALSE, ext |-> "absent"] :
        s \in {"fault", "http_error", "ok"}}
    \cup
    {[status |-> "ok", errors |-> TRUE, not_found |-> nf, ext |-> x] :
        nf \in BOOLEAN, x \in Extensions}

\* requests.post / raise_for_status: only requests.HTTPError is turned into
\* RestError; a connection failure or timeout raises a different
\* requests exception, which passes through
transport(reply) ==
    IF reply.status = "fault" THEN "ConnectionError"
    ELSE IF reply.status = "http_error" THEN "RestError"
    ELSE "response"

add_emote(reply) ==
    IF transport(reply) # "response" THEN transport(reply)
    ELSE IF ~reply.errors THEN "returned"
    ELSE IF reply.not_found THEN "EmoteNotFoundError"
    ELSE IF reply.ext = "absent" THEN "OtherError"
    ELSE IF reply.ext \in {"no_code", "no_message"} THEN "KeyError"
    ELSE IF reply.ext = "LACKING_PRIVILEGES" THEN "UnprivilegedError"
    ELSE IF reply.ext = "BAD_REQUEST" THEN "ConflictError"
    ELSE IF reply.ext = "LOAD_ERROR" THEN "CapacityError"
    ELSE "OtherError"

remove_emote(reply) ==
    IF transport(reply) # "response" THEN transport(reply)
    ELSE IF ~reply.errors THEN "returned"
    ELSE IF reply.not_found THEN "EmoteNotFoundError"
    ELSE IF reply.ext = "absent" THEN "OtherError"
    ELSE IF reply.ext \in {"no_code", "no_message"} THEN "KeyError"
    ELSE IF reply.ext = "LACKING_PRIVILEGES" THEN "UnprivilegedError"
    ELSE "OtherError"

(***************************************************************************)
(* copy_emotes (src/main.py:187-254)                                       *)
(***************************************************************************)
\* variant: the first target entry is taken, whatever its alias
conflicting_emote_first_entry(titems, alias) ==
    IF AliasUsed(alias, titems) THEN 1 ELSE 0

\* next((e for e in target items if e.alias == emote.alias), None):
\* the index of the first target entry with that alias, 0 for None
conflicting_emote(titems, alias) ==
    IF AliasUsed(alias, titems)
    THEN CHOOSE i \in 1..Len(titems) :
            /\ titems[i].alias = alias
            /\ \A j \in 1..(i - 1) : titems[j].alias # alias
    ELSE 0

\* variant: the negation of skip_removal is lost
removal_needed_negation_lost(conflict, skip) == conflict # 0 /\ skip

\* if conflicting_emote is not None and not skip_removal
removal_needed(conflict, skip) == conflict # 0 /\ ~skip

\* variant: the handler only warns and does not set skip_removal
skip_after_remove_not_set(result, skip) == skip

\* except EmoteNotFoundError around remove_emote: skip_removal = True
skip_after_remove(result, skip) == skip \/ result = "EmoteNotFoundError"

\* variant: UnprivilegedError is listed with the retried exceptions
except_clause_unprivileged_retried(result) ==
    IF result \in {"RestError", "OtherError", "UnprivilegedError"} THEN "retry"
    ELSE IF result = "EmoteNotFoundError" THEN "skip"
    ELSE IF result = "ConflictError" THEN "skip"
    ELSE IF result = "CapacityError" THEN "exit0"
    ELSE "propagate"

\* variant: CapacityError exits with status 1 like UnprivilegedError
except_clause_capacity_fatal(result) ==
    IF result \in {"RestError", "OtherError"} THEN "retry"
    ELSE IF result = "EmoteNotFoundError" THEN "skip"
    ELSE IF result = "ConflictError" THEN "skip"
    ELSE IF result = "UnprivilegedError" THEN "exit1"
    ELSE IF result = "CapacityError" THEN "exit1"
    ELSE "propagate"

\* variant: EmoteNotFoundError is listed with the retried exceptions
except_clause_not_found_retried(result) ==
    IF result \in {"RestError", "OtherError", "EmoteNotFoundError"} THEN "retry"
    ELSE IF result = "ConflictError" THEN "skip"
    ELSE IF result = "UnprivilegedError" THEN "exit1"
    ELSE IF result = "CapacityError" THEN "exit0"
    ELSE "propagate"

\* The except clauses of the while loop, and main's except Exception for
\* what none of them catches
except_clause(result) ==
    IF result \in {"RestError", "OtherError"} THEN "retry"
    ELSE IF result = "EmoteNotFoundError" THEN "skip"
    ELSE IF result = "ConflictError" THEN "skip"
    ELSE IF result = "UnprivilegedError" THEN "exit1"
    ELSE IF result = "CapacityError" THEN "exit0"
    ELSE "propagate"

\* variant: the comparison is strict
attempts_exhausted_strict(a) == a > 5

\* if attempts >= 5
attempts_exhausted(a) == a >= 5

\* variant: the shorter delay comes first
sleep_time_short_first(a) == 30 + (IF a > 1 THEN 15 ELSE 0)

\* sleep_time = 45 - (15 if attempts > 1 else 0)
sleep_time(a) == 45 - (IF a > 1 THEN 15 ELSE 0)

\* variant: a skipped item continues the for loop past progress.update
advances_added_only(how) == how = "added"

\* progress.update(task, advance=1) is reached by the two kinds of break
advances(how) == how \in {"added", "skip"}

\* the first call of an attempt on plan item i
AttemptStart(i, skip) ==
    IF removal_needed(conflicting_emote(target_emote_set.items,
                                        emotes_to_copy[i].alias), skip)
    THEN "remove" ELSE "add"

Call(op, set_id, id, reply, result) ==
    [op |-> op, emote_set_id |-> set_id, emote_id |-> id,
     status |-> reply.status, result |-> result]

\* Init of Spec: copy_emotes is entered with a plan that
\* process_emotes_to_copy returned and the target snapshot it was made for
Init ==
    /\ \E items \in OriginItems, f \in BOOLEAN, fit \in BOOLEAN :
          /\ target_emote_set \in EmoteSet
          /\ emotes_to_copy = process_emotes_to_copy(items, target_emote_set,
                                                     f, fit)
          /\ Len(emotes_to_copy) > 0
    /\ from_items = <<>>
    /\ force = FALSE
    /\ only_fitting = FALSE
    /\ pc = "confirm"
    /\ session = "Confirming"
    /\ sys_exit = <<>>
    /\ idx = 0
    /\ skip_removal = FALSE
    /\ attempts = 0
    /\ progress = 0
    /\ item_state = [i \in 1..Len(emotes_to_copy) |-> "Queued"]
    /\ attempt_log = <<>>
    /\ delays = <<>>
    /\ response = "none"
    /\ origin_set_id = "none"
    /\ target_set_id = TargetSetId
    /\ target_owner = NoOwner

\* variant: sys.exit(0) is missing after a declined start question
ConfirmStart_decline_goes_on ==
    /\ pc = "confirm"
    /\ \E start \in BOOLEAN :
          /\ pc' = "for"
          /\ session' = IF start THEN "Executing" ELSE "Declined"
          /\ sys_exit' = sys_exit
    /\ UNCHANGED <<from_items, target_emote_set, force, only_fitting,
                   emotes_to_copy, idx, skip_removal, attempts, progress,
                   item_state, attempt_log, delays, response,
                   origin_set_id, target_set_id, target_owner>>

\* main.py:198-204: the start question and the progress task
ConfirmStart ==
    /\ pc = "confirm"
    /\ \E start \in BOOLEAN :
          IF start
          THEN /\ pc' = "for"
               /\ session' = "Executing"
               /\ sys_exit' = sys_exit
          ELSE /\ pc' = "exit"
               /\ session' = "Declined"
               /\ sys_exit' = <<0>>
    /\ UNCHANGED <<from_items, target_emote_set, force, only_fitting,
                   emotes_to_copy, idx, skip_removal, attempts, progress,
                   item_state, attempt_log, delays,
                   response,
                   origin_set_id, target_set_id, target_owner>>

\* main.py:206-208 and 254: the for statement takes the next plan item and
\* resets the locals, or the loop is over and success is reported
ForNext ==
    /\ pc = "for"
    /\ IF idx < Len(emotes_to_copy)
       THEN /\ idx' = idx + 1
            /\ skip_removal' = FALSE
            /\ attempts' = 0
            /\ attempt_log' = <<>>
            /\ delays' = <<>>
            /\ pc' = AttemptStart(idx + 1, FALSE)
            /\ UNCHANGED <<session, sys_exit>>
       ELSE /\ pc' = "exit"
            /\ session' = "Completed"
            /\ sys_exit' = <<0>>
            /\ UNCHANGED <<idx, skip_removal, attempts, attempt_log, delays>>
    /\ UNCHANGED <<from_items, target_emote_set, force, only_fitting,
                   emotes_to_copy, progress, item_state,
                   response,
                   origin_set_id, target_set_id, target_owner>>

\* What follows a call that ended the attempt: how is "added" when add_emote
\* returned, otherwise the except clause that caught the exception
EndAttempt(how) ==
    /\ attempts' = IF how = "retry" THEN attempts + 1 ELSE attempts
    /\ progress' = IF advances(how) THEN progress + 1 ELSE progress
    /\ item_state' =
          IF how = "added" THEN [item_state EXCEPT ![idx] = "Added"]
          ELSE IF how = "skip" THEN [item_state EXCEPT ![idx] = "Skipped"]
          ELSE item_state
    /\ CASE how \in {"added", "skip"} ->
              /\ pc' = "for"
              /\ UNCHANGED <<session, sys_exit>>
         [] how = "retry" /\ ~attempts_exhausted(attempts + 1) ->
              /\ pc' = "sleep"
              /\ UNCHANGED <<session, sys_exit>>
         [] how = "retry" /\ attempts_exhausted(attempts + 1) ->
              /\ pc' = "exit"
              /\ session' = "AbortedFatal"
              /\ sys_exit' = <<1>>
         [] how = "exit1" ->
              /\ pc' = "exit"
              /\ session' = "AbortedFatal"
              /\ sys_exit' = <<1>>
         [] how = "exit0" ->
              /\ pc' = "exit"
              /\ session' = "AbortedGraceful"
              /\ sys_exit' = <<0>>
         [] how = "propagate" ->
              /\ pc' = "exit"
              /\ session' = "Unanticipated"
              /\ sys_exit' = <<1>>

\* main.py:212-220: remove the conflicting emote of the target snapshot
RemoveEmote ==
    /\ pc = "remove"
    /\ \E reply \in Replies :
          LET result == remove_emote(reply)
              c == conflicting_emote(target_emote_set.items,
                                     emotes_to_copy[idx].alias)
          IN  /\ attempt_log' = Append(attempt_log,
                    Call("remove", target_set_id,
                         target_emote_set.items[c].id, reply, result))
              /\ skip_removal' = skip_after_remove(result, skip_removal)
              /\ IF result \in {"returned", "EmoteNotFoundError"}
                 THEN /\ pc' = "add"
                      /\ UNCHANGED <<session, sys_exit, attempts, progress,
                                     item_state>>
                 ELSE EndAttempt(except_clause(result))
    /\ UNCHANGED <<from_items, target_emote_set, force, only_fitting,
                   emotes_to_copy, idx, delays,
                   response,
                   origin_set_id, target_set_id, target_owner>>

\* main.py:222-250: add the emote and classify the outcome
AddEmote ==
    /\ pc = "add"
    /\ \E reply \in Replies :
          LET result == add_emote(reply)
          IN  /\ attempt_log' = Append(attempt_log,
                    Call("add", target_set_id, emotes_to_copy[idx].id,
                         reply, result))
              /\ IF result = "returned"
                 THEN EndAttempt("added")
                 ELSE EndAttempt(except_clause(result))
    /\ UNCHANGED <<from_items, target_emote_set, force, only_fitting,
                   emotes_to_copy, idx, skip_removal, delays,
                   response,
                   origin_set_id, target_set_id, target_owner>>

\* main.py:232-234: the backoff, then the next iteration of while True
Sleep ==
    /\ pc = "sleep"
    /\ delays' = Append(delays, sleep_time(attempts))
    /\ attempt_log' = <<>>
    /\ pc' = AttemptStart(idx, skip_removal)
    /\ UNCHANGED <<from_items, target_emote_set, force, only_fitting,
                   emotes_to_copy, session, sys_exit, idx, skip_removal,
                   attempts, progress, item_state,
                   response,
                   origin_set_id, target_set_id, target_owner>>

Next ==
    \/ ConfirmStart
    \/ ForNext
    \/ RemoveEmote
    \/ AddEmote
    \/ Sleep

Spec == Init /\ [][Next]_vars

TypeOK ==
    /\ pc \in {"get_origin", "get_target", "process", "confirm", "for",
              "remove", "add", "sleep", "exit", "add_emote", "remove_emote",
              "classified"}
    /\ session \in {"Prompting", "Planning", "NothingToCopy", "Confirming",
                    "Declined", "Executing", "Completed", "AbortedGraceful",
                    "AbortedFatal", "Unanticipated", "Interrupted"}
    /\ sys_exit \in {<<>>, <<0>>, <<1>>}
    /\ idx \in 0..Len(emotes_to_copy)
    /\ attempts \in 0..5
    /\ progress \in 0..Len(emotes_to_copy)

(***************************************************************************)
(* SpecClassify: add_emote and remove_emote applied to bounded replies.    *)
(* response holds the reply of the remote; the call and what the client    *)
(* made of it are logged.                                                  *)
(***************************************************************************)
\* A message is a sequence of words, each written in lower case or not
Lower(w) == [word |-> w, lower |-> TRUE]
Mixed(w) == [word |-> w, lower |-> FALSE]

Messages ==
    {<<Lower("emote"), Lower("not"), Lower("found")>>,
     <<Mixed("emote"), Mixed("not"), Mixed("found")>>,
     <<Lower("error"), Mixed("emote"), Lower("not"), Lower("found")>>,
     <<Lower("emote"), Lower("found")>>,
     <<Lower("error")>>}

\* message.lower()
lower(message) == [i \in 1..Len(message) |-> Lower(message[i].word)]

\* needle in text
is_in(needle, text) ==
    \E i \in 0..(Len(text) - Len(needle)) :
        SubSeq(text, i + 1, i + Len(needle)) = needle

\* "emote not found" in message.lower()
emote_not_found_in(message) ==
    is_in(<<Lower("emote"), Lower("not"), Lower("found")>>, lower(message))

\* The replies of the remote with the message of errors[0] spelled out
Responses ==
    {[status |-> s, errors |-> FALSE, message |-> <<>>, ext |-> "absent"] :
        s \in {"fault", "http_error", "ok"}}
    \cup
    {[status |-> "ok", errors |-> TRUE, message |-> m, ext |-> x] :
        m \in Messages, x \in Extensions}

\* the reply as add_emote and remove_emote read it
ReplyOf(r) ==
    [status |-> r.status, errors |-> r.errors,
     not_found |-> emote_not_found_in(r.message), ext |-> r.ext]

InitClassify ==
    /\ response \in Responses
    /\ origin_set_id = "none"
    /\ target_set_id = TargetSetId
    /\ target_owner = NoOwner
    /\ pc \in {"add_emote", "remove_emote"}
    /\ from_items = <<>>
    /\ target_emote_set = [capacity |-> 0, items |-> <<>>, total_count |-> 0]
    /\ force = FALSE
    /\ only_fitting = FALSE
    /\ emotes_to_copy = <<>>
    /\ session = "Executing"
    /\ sys_exit = <<>>
    /\ idx = 0
    /\ skip_removal = FALSE
    /\ attempts = 0
    /\ progress = 0
    /\ item_state = <<>>
    /\ attempt_log = <<>>
    /\ delays = <<>>

ClassifyUnchanged ==
    UNCHANGED <<from_items, target_emote_set, force, only_fitting,
                emotes_to_copy, session, sys_exit, idx, skip_removal, attempts,
                progress, item_state, delays, response,
                origin_set_id, target_set_id, target_owner>>

\* seventv.py:109-138
ClassifyAdd ==
    /\ pc = "add_emote"
    /\ attempt_log' = <<Call("add", target_set_id, 1, ReplyOf(response),
                             add_emote(ReplyOf(response)))>>
    /\ pc' = "classified"
    /\ ClassifyUnchanged

\* seventv.py:175-204
ClassifyRemove ==
    /\ pc = "remove_emote"
    /\ attempt_log' = <<Call("remove", target_set_id, 1, ReplyOf(response),
                             remove_emote(ReplyOf(response)))>>
    /\ pc' = "classified"
    /\ ClassifyUnchanged

NextClassify ==
    \/ ClassifyAdd
    \/ ClassifyRemove

SpecClassify == InitClassify /\ [][NextClassify]_vars

(***************************************************************************)
(* SpecSession: main (src/main.py:257-272) from the first prompt on, after *)
(* get_user_token_and_id has returned: the two sets are fetched, the plan  *)
(* is made and copy_emotes runs it; the user may interrupt at any point.   *)
(* response holds the kind of the remote's reply to the last fetch; force  *)
(* tells whether conflicting emotes are replaced in this session (asked    *)
(* and answered yes); the locals of process_emotes_to_copy that nothing    *)
(* reads afterwards (from_items, only_fitting) are dropped when it         *)
(* returns, and so is the owner of the target snapshot.                    *)
(***************************************************************************)
\* The replies to the query of emote_set_from_id: no HTTP response, a
\* non-2xx response, a 2xx response whose emoteSet is null (the remote has
\* no such set), a 2xx response with the set
FetchReplies == {"fault", "http_error", "null", "found"}

\* seventv.py:58-65: only requests.HTTPError becomes RestError, and
\* EmoteSet.model_validate(None) raises pydantic's ValidationError; no
\* reply makes the function return None
emote_set_from_id(r) ==
    IF r = "fault" THEN "ConnectionError"
    ELSE IF r = "http_error" THEN "RestError"
    ELSE IF r = "null" THEN "ValidationError"
    ELSE "EmoteSet"

\* the origin sets the remote may hold, an empty one included
FetchedOrigins ==
    {<<>>} \cup OriginItems

\* len(new_emotes) - len(non_conflicting_emotes)
conflicting(items, titems) ==
    Len(new_emotes(items, titems)) - Len(non_conflicting_emotes(items, titems))

\* the conflict question is asked and answered yes (main.py:160-167)
replaces(items, titems, f) == conflicting(items, titems) > 0 /\ f

\* variant: KeyboardInterrupt ends like any other exception
main_except_interrupt_fails(exc) == [session |-> "Unanticipated", status |-> 1]

\* main.py:267-272: the except clauses of main
main_except(exc) ==
    IF exc = "KeyboardInterrupt" THEN [session |-> "Interrupted", status |-> 0]
    ELSE [session |-> "Unanticipated", status |-> 1]

\* an exception leaves the prompts and ends the process in main
Raise(exc) ==
    /\ pc' = "exit"
    /\ session' = main_except(exc).session
    /\ sys_exit' = <<main_except(exc).status>>

InitSession ==
    /\ from_items = <<>>
    /\ target_emote_set = [capacity |-> 0, items |-> <<>>, total_count |-> 0]
    /\ force = FALSE
    /\ only_fitting = FALSE
    /\ emotes_to_copy = <<>>
    /\ pc = "get_origin"
    /\ session = "Prompting"
    /\ sys_exit = <<>>
    /\ idx = 0
    /\ skip_removal = FALSE
    /\ attempts = 0
    /\ progress = 0
    /\ item_state = <<>>
    /\ attempt_log = <<>>
    /\ delays = <<>>
    /\ response = "none"
    /\ origin_set_id = "none"
    /\ target_set_id = "none"
    /\ target_owner = NoOwner

\* what GetOrigin leaves alone while the prompt is repeated
OriginPending ==
    UNCHANGED <<from_items, origin_set_id, pc, session, sys_exit>>

\* main.py:58-83: one round of the while loop of get_origin_emote_set
GetOrigin ==
    /\ pc = "get_origin"
    /\ \E valid \in BOOLEAN, r \in FetchReplies :
          IF ~valid
          THEN OriginPending /\ UNCHANGED response
          ELSE /\ response' = r
               /\ LET set == emote_set_from_id(r)
                  IN  IF set = "None"
                      THEN OriginPending
                      ELSE IF set = "EmoteSet"
                      THEN \E items \in FetchedOrigins :
                              IF Len(items) = 0
                              THEN OriginPending
                              ELSE /\ from_items' = items
                                   /\ origin_set_id' = OriginSetId
                                   /\ pc' = "get_target"
                                   /\ UNCHANGED <<session, sys_exit>>
                      ELSE /\ Raise(set)
                           /\ UNCHANGED <<from_items, origin_set_id>>
    /\ UNCHANGED <<target_emote_set, force, only_fitting, emotes_to_copy, idx,
                   skip_removal, attempts, progress, item_state, attempt_log,
                   delays, target_set_id, target_owner>>

\* variant: the target may be the origin set itself
target_rejected_same_allowed(id, origin, owner, user) ==
    /\ owner.id # user
    /\ \A i \in 1..Len(owner.editors) : owner.editors[i] # user

\* main.py:104-112: the fetched set is the origin set, or the user is
\* neither its owner nor one of its editors
target_rejected(id, origin, owner, user) ==
    \/ id = origin
    \/ /\ owner.id # user
       /\ \A i \in 1..Len(owner.editors) : owner.editors[i] # user

\* what GetTarget leaves alone while the prompt is repeated
TargetPending ==
    UNCHANGED <<target_emote_set, target_set_id, target_owner, pc, session,
                sys_exit>>

\* main.py:86-118: one round of the while loop of get_target_emote_set
GetTarget ==
    /\ pc = "get_target"
    /\ \E valid \in BOOLEAN, r \in FetchReplies :
          IF ~valid
          THEN TargetPending /\ UNCHANGED response
          ELSE /\ response' = r
               /\ LET set == emote_set_from_id(r)
                  IN  IF set = "None"
                      THEN TargetPending
                      ELSE IF set = "EmoteSet"
                      THEN \E target \in EmoteSet, id \in SetIds,
                              owner \in Owner :
                              IF target_rejected(id, origin_set_id, owner,
                                                 seventv_user_id)
                              THEN TargetPending
                              ELSE /\ target_emote_set' = target
                                   /\ target_set_id' = id
                                   /\ target_owner' = owner
                                   /\ pc' = "process"
                                   /\ session' = "Planning"
                                   /\ UNCHANGED sys_exit
                      ELSE /\ Raise(set)
                           /\ UNCHANGED <<target_emote_set, target_set_id,
                                          target_owner>>
    /\ UNCHANGED <<from_items, force, only_fitting, emotes_to_copy, idx,
                   skip_removal, attempts, progress, item_state, attempt_log,
                   delays, origin_set_id>>

\* main.py:263-265: process_emotes_to_copy with the user's two answers; an
\* empty plan ends the process (main.py:180-182), any other is handed to
\* copy_emotes
PlanSession ==
    /\ pc = "process"
    /\ \E f \in BOOLEAN, fit \in BOOLEAN :
          LET plan == process_emotes_to_copy(from_items, target_emote_set,
                                             f, fit)
          IN  /\ emotes_to_copy' = plan
              /\ force' = replaces(from_items, target_emote_set.items, f)
              /\ item_state' = [i \in 1..Len(plan) |-> "Queued"]
              /\ IF Len(plan) = 0
                 THEN /\ pc' = "exit"
                      /\ session' = "NothingToCopy"
                      /\ sys_exit' = <<0>>
                 ELSE /\ pc' = "confirm"
                      /\ session' = "Confirming"
                      /\ sys_exit' = sys_exit
    /\ from_items' = <<>>
    /\ target_owner' = NoOwner
    /\ UNCHANGED <<target_emote_set, only_fitting, idx, skip_removal, attempts,
                   progress, attempt_log, delays, response,
                   origin_set_id, target_set_id>>

\* main.py:267-268: the user interrupts the running process
Interrupt ==
    /\ pc # "exit"
    /\ Raise("KeyboardInterrupt")
    /\ UNCHANGED <<from_items, target_emote_set, force, only_fitting,
                   emotes_to_copy, idx, skip_removal, attempts, progress,
                   item_state, attempt_log, delays, response,
                   origin_set_id, target_set_id, target_owner>>

NextSession ==
    \/ GetOrigin
    \/ GetTarget
    \/ PlanSession
    \/ ConfirmStart
    \/ ForNext
    \/ RemoveEmote
    \/ AddEmote
    \/ Sleep
    \/ Interrupt

SpecSession == InitSession /\ [][NextSession]_vars

(***************************************************************************)
(* Vocabulary of the properties.                                           *)
(***************************************************************************)
\* the most recent remote call of the current attempt
LastCall == attempt_log[Len(attempt_log)]

\* a step that issues a remote call: the call is appended to the log
CallIssued == Len(attempt_log') = Len(attempt_log) + 1
AddIssued == CallIssued /\ LastCall'.op = "add"
RemoveIssued == CallIssued /\ LastCall'.op = "remove"

\* the result of the call a step issued
Answer(result) == CallIssued /\ LastCall'.result = result

Retryable == {"RestError", "OtherError"}

\* the target entry whose alias the current plan item uses, 0 if none
Conflict == conflicting_emote(target_emote_set.items, emotes_to_copy[idx].alias)

\* a step in which process_emotes_to_copy returns or exits
PlanMade == pc = "process" /\ session' \in {"Confirming", "NothingToCopy"}

\* s is t with some entries left out
RECURSIVE IsSubseq(_, _)
IsSubseq(s, t) ==
    IF s = <<>> THEN TRUE
    ELSE IF t = <<>> THEN FALSE
    ELSE IF Head(s) = Head(t) THEN IsSubseq(Tail(s), Tail(t))
    ELSE IsSubseq(s, Tail(t))

\* the entries of a list, as a set
Range(s) == {s[i] : i \in 1..Len(s)}

\* the traceback is printed: main.py:229 and main.py:271
Traceback ==
    \/ session = "Unanticipated"
    \/ session = "AbortedFatal" /\ attempts_exhausted(attempts)

Finished(i) == item_state[i] \in {"Added", "Skipped"}

\* once the process has ended nothing happens any more: no remote call
Halted == pc = "exit" => UNCHANGED vars

(***************************************************************************)
(* C1: a RestError or OtherError from the remove-then-add step is retried; *)
(* an item gets at most 5 attempts; a success on the 5th attempt (after 4  *)
(* retryable failures) leaves the item Added and the session running; the  *)
(* 5th consecutive retryable failure ends the session AbortedFatal with    *)
(* exit status 1 and no further remote call.                               *)
(***************************************************************************)
C1_BoundedRetry ==
    [][ /\ attempts' <= 5
        /\ CallIssued => attempts <= 4
        /\ (idx' = idx /\ attempts' # attempts) =>
              (CallIssued /\ LastCall'.result \in Retryable)
        /\ (pc' = "sleep" /\ pc # "sleep") => attempts' = attempts + 1
        /\ (idx' = idx /\ attempt_log' = <<>> /\ attempt_log # <<>>) =>
              pc = "sleep"
        /\ (CallIssued /\ LastCall'.result \in Retryable) =>
              /\ attempts' = attempts + 1
              /\ idx' = idx
              /\ IF attempts < 4
                 THEN pc' = "sleep" /\ session' = "Executing"
                 ELSE /\ pc' = "exit"
                      /\ session' = "AbortedFatal"
                      /\ sys_exit' = <<1>>
        /\ (AddIssued /\ LastCall'.result = "returned") =>
              /\ item_state'[idx] = "Added"
              /\ session' = "Executing"
              /\ sys_exit' = <<>>
        /\ Halted ]_vars

\* the 5th consecutive retryable failure of an item has ended the session
C1_Witness ==
    /\ session = "AbortedFatal"
    /\ attempts = 5
    /\ delays = <<45, 30, 30, 30>>
    /\ LastCall.result \in Retryable

(***************************************************************************)
(* C2 as stated: the delay before the first retry of an item is 30 s and   *)
(* before every later retry 45 s, 165 s in total for an item that succeeds *)
(* on its 5th attempt.                                                     *)
(***************************************************************************)
C2_Original ==
    /\ \A k \in 1..Len(delays) : delays[k] = (IF k = 1 THEN 30 ELSE 45)
    /\ (pc = "for" /\ attempts = 4 /\ idx > 0 /\ item_state[idx] = "Added")
          => Sum(delays) = 165

(***************************************************************************)
(* C2 amended: the delay before the first retry of an item is 45 s and     *)
(* before every later retry 30 s, so an item that fails 4 times and        *)
(* succeeds on the 5th attempt has waited 45+30+30+30 = 135 s.             *)
(***************************************************************************)
C2_Backoff ==
    /\ Len(delays) <= 4
    /\ \A k \in 1..Len(delays) : delays[k] = (IF k = 1 THEN 45 ELSE 30)
    /\ pc \in {"remove", "add", "for"} => Len(delays) = attempts
    /\ (pc = "for" /\ attempts = 4 /\ idx > 0 /\ item_state[idx] = "Added")
          => Sum(delays) = 135

\* an item was added on its 5th attempt
C2_Witness ==
    /\ pc = "for"
    /\ attempts = 4
    /\ idx > 0
    /\ item_state[idx] = "Added"
    /\ delays = <<45, 30, 30, 30>>

(***************************************************************************)
(* C3 as stated: when the user chooses to add only the emotes that fit,    *)
(* the plan has at most max(0, capacity - total count) entries; no space   *)
(* gives an empty plan.                                                    *)
(***************************************************************************)
C3_TrimWithinCapacity ==
    (pc # "process" /\ only_fitting) =>
        Len(emotes_to_copy) <= Max(0, space_available(target_emote_set))

(***************************************************************************)
(* C4: add_emote for a plan item whose alias a target entry uses is issued *)
(* only after remove_emote for that target entry returned or raised        *)
(* EmoteNotFoundError in the same attempt, or after removal was marked to  *)
(* be skipped in an earlier attempt.                                       *)
(***************************************************************************)
C4_RemoveBeforeAdd ==
    [][ (AddIssued /\ Conflict # 0) =>
           \/ /\ Len(attempt_log) = 1
              /\ attempt_log[1].op = "remove"
              /\ attempt_log[1].emote_id = target_emote_set.items[Conflict].id
              /\ attempt_log[1].result \in {"returned", "EmoteNotFoundError"}
           \/ /\ attempt_log = <<>>
              /\ skip_removal
              /\ attempts > 0 ]_vars

\* an add issued right after the removal of the conflicting target entry
C4_Witness ==
    /\ Len(attempt_log) = 2
    /\ attempt_log[1].op = "remove"
    /\ attempt_log[1].result = "returned"
    /\ attempt_log[2].op = "add"
    /\ Conflict # 0

(***************************************************************************)
(* C5: an UnprivilegedError from remove_emote or add_emote ends the        *)
(* session AbortedFatal with exit status 1 at once: no retry, no progress  *)
(* advance for the item, no remote call afterwards.                        *)
(***************************************************************************)
C5_UnprivilegedIsFatal ==
    [][ /\ Answer("UnprivilegedError") =>
              /\ session' = "AbortedFatal"
              /\ sys_exit' = <<1>>
              /\ pc' = "exit"
              /\ attempts' = attempts
              /\ delays' = delays
              /\ progress' = progress
              /\ item_state' = item_state
        /\ Halted ]_vars

\* remove_emote raised UnprivilegedError and the session is over
C5_Witness ==
    /\ session = "AbortedFatal"
    /\ pc = "exit"
    /\ Len(attempt_log) = 1
    /\ LastCall.op = "remove"
    /\ LastCall.result = "UnprivilegedError"

(***************************************************************************)
(* C6: a CapacityError from add_emote ends the session AbortedGraceful     *)
(* with exit status 0 at once: no retry, no later item, and what was done  *)
(* for earlier items stays as it is.                                       *)
(***************************************************************************)
C6_CapacityIsGraceful ==
    [][ /\ Answer("CapacityError") =>
              /\ AddIssued
              /\ session' = "AbortedGraceful"
              /\ sys_exit' = <<0>>
              /\ pc' = "exit"
              /\ attempts' = attempts
              /\ delays' = delays
              /\ idx' = idx
              /\ progress' = progress
              /\ item_state' = item_state
        /\ Halted ]_vars

\* the second item hit CapacityError after the first was done
C6_Witness ==
    /\ session = "AbortedGraceful"
    /\ sys_exit = <<0>>
    /\ idx = 2
    /\ progress = 1
    /\ LastCall.result = "CapacityError"

(***************************************************************************)
(* C7: an EmoteNotFoundError or ConflictError from add_emote makes the     *)
(* item Skipped without retry or delay, advances the progress by one and   *)
(* the executor goes on to the next item; the session does not end.        *)
(***************************************************************************)
C7_AddNotFoundOrConflictSkips ==
    [][ (AddIssued /\ LastCall'.result \in {"EmoteNotFoundError",
                                            "ConflictError"}) =>
           /\ item_state' = [item_state EXCEPT ![idx] = "Skipped"]
           /\ progress' = progress + 1
           /\ attempts' = attempts
           /\ delays' = delays
           /\ pc' = "for"
           /\ session' = "Executing"
           /\ sys_exit' = <<>> ]_vars

\* the first item was skipped on add and the executor is at the second item
C7_Witness ==
    /\ idx = 2
    /\ item_state[1] = "Skipped"
    /\ pc = "add"
    /\ session = "Executing"

(***************************************************************************)
(* C8: when remove_emote raises EmoteNotFoundError the executor goes on to *)
(* add_emote in the same attempt without consuming a retry, and issues no  *)
(* further remove_emote for that item in later retries; the flag is reset  *)
(* for every item, so the next item with a conflicting target entry does   *)
(* attempt its removal.                                                    *)
(***************************************************************************)
C8_SkipRemovalPerItem ==
    [][ /\ (RemoveIssued /\ LastCall'.result = "EmoteNotFoundError") =>
              /\ pc' = "add"
              /\ skip_removal'
              /\ attempts' = attempts
              /\ session' = "Executing"
        /\ (skip_removal /\ idx' = idx) =>
              /\ skip_removal'
              /\ ~RemoveIssued
        /\ idx' # idx =>
              /\ ~skip_removal'
              /\ pc' = (IF Conflict' # 0 THEN "remove" ELSE "add") ]_vars

\* a retry of an item whose removal was not found: add again, no removal
C8_Witness ==
    /\ skip_removal
    /\ attempts >= 1
    /\ Conflict # 0
    /\ Len(attempt_log) = 1
    /\ LastCall.op = "add"

(***************************************************************************)
(* C9 as stated: a network fault (connection failure or timeout) during    *)
(* add_emote or remove_emote is reported as RestError and so is retried,   *)
(* not surfaced as an unanticipated fault that ends the session.           *)
(***************************************************************************)
C9_NetworkFaultIsRestError ==
    (Len(attempt_log) > 0 /\ LastCall.status = "fault") =>
        /\ LastCall.result = "RestError"
        /\ session # "Unanticipated"
        /\ (attempts < 5 => session = "Executing")

(***************************************************************************)
(* C10: the number of progress advances equals the number of plan items    *)
(* that are Added or Skipped, an item that caused an abort is neither, and *)
(* success is reported only when that number is the plan length.           *)
(***************************************************************************)
C10_ProgressCountsFinishedItems ==
    pc # "process" =>
        /\ progress = Cardinality({i \in DOMAIN item_state : Finished(i)})
        /\ \A i \in DOMAIN item_state : Finished(i) <=> i <= progress
        /\ session \in {"AbortedFatal", "AbortedGraceful", "Unanticipated"}
              => (idx > 0 /\ ~Finished(idx))
        /\ session = "Completed" => progress = Len(emotes_to_copy)

\* a completed session with a skipped and an added item
C10_Witness ==
    /\ session = "Completed"
    /\ progress = 2
    /\ item_state = <<"Skipped", "Added">>

(***************************************************************************)
(* C11: when conflicting emotes are not replaced (the question was         *)
(* answered no, or there was no conflict to ask about), no entry of the    *)
(* plan has the alias of a target entry, and copy_emotes calls             *)
(* remove_emote at no point of the session.                                *)
(***************************************************************************)
C11_NoReplaceNoRemoval ==
    /\ [](~force => \A k \in 1..Len(emotes_to_copy) :
                        ~AliasUsed(emotes_to_copy[k].alias,
                                   target_emote_set.items))
    /\ [][~force' => ~RemoveIssued]_vars

\* a session that completed against a non-empty target without replacing
C11_Witness ==
    /\ session = "Completed"
    /\ ~force
    /\ Len(target_emote_set.items) > 0
    /\ \A i \in 1..Len(emotes_to_copy) : item_state[i] = "Added"

C13_PlanIsOrderedSublist ==
    /\ [][PlanMade =>
            /\ IsSubseq(emotes_to_copy', from_items)
            /\ \A k \in 1..Len(emotes_to_copy') :
                  ~emotes_to_copy'[k].private]_vars
    /\ [][session = "Executing" =>
            /\ emotes_to_copy' = emotes_to_copy
            /\ idx' \in {idx, idx + 1}
            /\ idx' = idx + 1 => \A i \in 1..idx : Finished(i)
            /\ AddIssued =>
                  /\ LastCall'.emote_id = emotes_to_copy[idx].id
                  /\ \A i \in 1..(idx - 1) : Finished(i)
                  /\ \A i \in idx..Len(emotes_to_copy) :
                        item_state[i] = "Queued"]_vars

\* a plan of two entries was worked through
C13_Witness ==
    /\ session = "Completed"
    /\ Len(emotes_to_copy) = 2
    /\ idx = 2
    /\ item_state = <<"Added", "Added">>

(***************************************************************************)
(* C14: an origin entry whose (id, alias) pair is already in the target    *)
(* snapshot is dropped from the plan, whatever the answer to the conflict  *)
(* question; no planned entry has both the id and the alias of a target    *)
(* entry.                                                                  *)
(***************************************************************************)
C14_ExactDuplicateFilter ==
    pc # "process" =>
        /\ \A i \in 1..Len(from_items) :
              ExactlySame(from_items[i], target_emote_set.items)
                  => \A k \in 1..Len(emotes_to_copy) :
                         emotes_to_copy[k] # from_items[i]
        /\ \A k \in 1..Len(emotes_to_copy) :
              ~ExactlySame(emotes_to_copy[k], target_emote_set.items)

\* conflicts are replaced, an exact duplicate was dropped and the plan still
\* has an entry
C14_Witness ==
    /\ pc = "confirm"
    /\ force
    /\ Len(emotes_to_copy) > 0
    /\ \E i \in 1..Len(from_items) :
          /\ ~from_items[i].private
          /\ ExactlySame(from_items[i], target_emote_set.items)

(***************************************************************************)
(* C15 as stated: add_emote turns every reply that carries errors into one *)
(* kind of the taxonomy: EmoteNotFoundError when the message contains      *)
(* "emote not found" in any letter case, otherwise UnprivilegedError for   *)
(* LACKING_PRIVILEGES, ConflictError for BAD_REQUEST, CapacityError for    *)
(* LOAD_ERROR and OtherError for any other code, for extensions without a  *)
(* code and for absent extensions; the classification raises nothing else. *)
(***************************************************************************)
C15_ClosedTaxonomy ==
    (/\ pc = "classified"
     /\ LastCall.op = "add"
     /\ response.status = "ok"
     /\ response.errors) =>
        LET r == LastCall.result
            x == response.ext
        IN  /\ r \in {"EmoteNotFoundError", "UnprivilegedError",
                      "ConflictError", "CapacityError", "OtherError"}
            /\ emote_not_found_in(response.message)
                   => r = "EmoteNotFoundError"
            /\ ~emote_not_found_in(response.message) =>
                   /\ x = "LACKING_PRIVILEGES" => r = "UnprivilegedError"
                   /\ x = "BAD_REQUEST" => r = "ConflictError"
                   /\ x = "LOAD_ERROR" => r = "CapacityError"
                   /\ x \in {"absent", "no_code", "INTERNAL_SERVER_ERROR"}
                          => r = "OtherError"

(***************************************************************************)
(* C16 as stated: when the remote answers a fetch with "no such set",      *)
(* emote_set_from_id returns None, the prompt is repeated and the process  *)
(* goes on.                                                                *)
(***************************************************************************)
C16_NotFoundReprompts ==
    [][(pc \in {"get_origin", "get_target"} /\ response' = "null")
          => (pc' = pc /\ sys_exit' = <<>>)]_vars

(***************************************************************************)
(* C17: an interrupt ends the process at once with exit status 0 and no    *)
(* traceback, wherever it arrives; it is the only way out of a backoff     *)
(* wait; no remote call is issued with it or after it, and what was added  *)
(* or removed before stays as it is.                                       *)
(***************************************************************************)
C17_InterruptEndsCleanly ==
    [][/\ (session' = "Interrupted" /\ session # "Interrupted") =>
            /\ pc' = "exit"
            /\ sys_exit' = <<0>>
            /\ ~Traceback'
            /\ UNCHANGED <<target_emote_set, emotes_to_copy, item_state,
                           progress, attempt_log>>
       /\ (pc = "sleep" /\ pc' = "exit") =>
            /\ session' = "Interrupted"
            /\ sys_exit' = <<0>>
       /\ session = "Interrupted" => UNCHANGED vars]_vars

\* interrupted during the backoff wait for the second item, the first one
\* added
C17_Witness ==
    /\ session = "Interrupted"
    /\ sys_exit = <<0>>
    /\ idx = 2
    /\ item_state = <<"Added", "Queued">>
    /\ attempts = Len(delays) + 1
    /\ Len(attempt_log) > 0

(***************************************************************************)
(* C18 as stated: whatever the remote answers, copy_emotes ends in one of  *)
(* Completed, AbortedGraceful and AbortedFatal; attempts starts at 0 for   *)
(* each item and an item that has failed 5 times ends the session, so no   *)
(* item is attempted more than 5 times.                                    *)
(***************************************************************************)
C18_TerminatesInThreeOutcomes ==
    [][/\ (session = "Executing" /\ pc' = "exit")
            => session' \in {"Completed", "AbortedGraceful", "AbortedFatal"}
       /\ idx' # idx => attempts' = 0
       /\ attempts' <= 5
       /\ pc' # "exit" => attempts' < 5]_vars

(***************************************************************************)
(* C19 as stated: an item whose conflicting target entry remove_emote has  *)
(* removed does not end Skipped.                                           *)
(***************************************************************************)
C19_NoSkipAfterRemoval ==
    (pc = "for" /\ idx > 0 /\ item_state[idx] = "Skipped") =>
        \A k \in 1..Len(attempt_log) :
            ~(/\ attempt_log[k].op = "remove"
              /\ attempt_log[k].result = "returned")

(***************************************************************************)
(* C20: add_emote and remove_emote are called only after the start         *)
(* question was answered yes; an empty plan or a declined start ends the   *)
(* process with exit status 0 and without any such call.                   *)
(***************************************************************************)
C20_NoMutationBeforeConfirm ==
    /\ [](session \in {"NothingToCopy", "Declined"} =>
            /\ pc = "exit"
            /\ sys_exit = <<0>>
            /\ attempt_log = <<>>
            /\ progress = 0
            /\ \A i \in 1..Len(item_state) : item_state[i] = "Queued")
    /\ [][(AddIssued \/ RemoveIssued) =>
            /\ session = "Executing"
            /\ Len(emotes_to_copy) > 0]_vars

\* the start question was declined for a plan with a conflicting entry
C20_Witness ==
    /\ session = "Declined"
    /\ pc = "exit"
    /\ force
    /\ Len(emotes_to_copy) > 0

(***************************************************************************)
(* C21: get_target_emote_set returns only a set whose id differs from the  *)
(* origin's and whose snapshot names the user as owner or editor; every    *)
(* add_emote and remove_emote call of the session is addressed to that     *)
(* set, never to the origin set; and every remove_emote call names an      *)
(* entry of the target snapshot.                                           *)
(***************************************************************************)
C21_MutationsAddressTarget ==
    /\ [][(pc = "get_target" /\ pc' = "process") =>
            /\ target_set_id' \in SetIds
            /\ target_set_id' # origin_set_id
            /\ \/ target_owner'.id = seventv_user_id
               \/ seventv_user_id \in Range(target_owner'.editors)]_vars
    /\ [][pc \notin {"get_origin", "get_target"} =>
            UNCHANGED <<origin_set_id, target_set_id, target_emote_set>>]_vars
    /\ [][(AddIssued \/ RemoveIssued) =>
            /\ LastCall'.emote_set_id = target_set_id
            /\ LastCall'.emote_set_id # origin_set_id]_vars
    /\ [][RemoveIssued =>
            \E j \in 1..Len(target_emote_set.items) :
                target_emote_set.items[j].id = LastCall'.emote_id]_vars

\* a target entry was removed and the plan item added, both in the target
\* set, after the origin set was fetched
C21_Witness ==
    /\ session = "Executing"
    /\ origin_set_id = OriginSetId
    /\ pc = "for"
    /\ idx > 0
    /\ item_state[idx] = "Added"
    /\ Len(attempt_log) = 2
    /\ attempt_log[1].op = "remove"
    /\ attempt_log[1].emote_set_id = target_set_id
    /\ attempt_log[2].op = "add"
    /\ attempt_log[2].emote_set_id = target_set_id

====
